---------------------------- MODULE Spec2Model ----------------------------
(***************************************************************************)
(* A model of Drastic_Display_Final.py: the kiosk loop that polls a Plex   *)
(* server, rotates slides for the currently playing or recently added      *)
(* media, and shows an idle clock screen.                                   *)
(*                                                                         *)
(* Four specifications share the variables:                                *)
(*   Spec      main_loop with its environment (catalog answers, image       *)
(*             fetch responses, pygame events);                             *)
(*   FairSpec  Spec with weak fairness of the loop's own steps;             *)
(*   SpecWrap  wrap_text applied to bounded inputs;                         *)
(*   SpecNorm  get_currently_playing / get_last_added applied to bounded    *)
(*             catalog answers.                                             *)
(***************************************************************************)
EXTENDS Integers, Sequences, FiniteSets, TLC

VARIABLES
    pc,                \* position of main_loop
    running,           \* main_loop's local `running`
    media_to_display,  \* main_loop's local list of slides of the cycle
    idx,               \* position of the for loop in media_to_display (1-based)
    events,            \* pygame's event queue
    screen,            \* what the pygame display shows
    rendered,          \* history: the screens presented since the last poll
    polled,            \* history: what the cycle's catalog queries returned
    quitAt,            \* history: where main_loop was when a quit signal first arrived
    crashCause,        \* history: which call raised the exception that ended main_loop
    tally,             \* history: the sleeps and session queries since the last poll
    wrap_in,           \* SpecWrap: the arguments of wrap_text
    wrap_out,          \* SpecWrap: the value wrap_text returned
    norm_in,           \* SpecNorm: the catalog answer
    norm_out,          \* SpecNorm: the slides returned
    draw_in,           \* SpecDraw: the screen to draw and what the fetches answer
    draw_out           \* SpecDraw: the operations performed on the pygame display

vars == <<pc, running, media_to_display, idx, events, screen, rendered, polled,
          quitAt, crashCause, tally, wrap_in, wrap_out, norm_in, norm_out,
          draw_in, draw_out>>

loopVars == <<pc, running, media_to_display, idx, events, screen, rendered, polled,
              quitAt, crashCause, tally>>

pureVars == <<wrap_in, wrap_out, norm_in, norm_out, draw_in, draw_out>>

(***************************************************************************)
(* Bounds of the model.                                                    *)
(***************************************************************************)
MaxTextLen == 5        \* longest text given to wrap_text
MaxWidth == 6          \* largest max_width given to wrap_text
MaxCharWidth == 2      \* widest character of the measure functions
MaxSessions == 2       \* longest answer of plex.sessions()
MaxQueue == 2          \* most events waiting in pygame's queue
MaxExtra == 1          \* items plex.library.recentlyAdded() may return beyond NUM_RECENT_ITEMS

(***************************************************************************)
(* Python values.                                                          *)
(***************************************************************************)
None == "<None>"

Truthy(v) == v # None /\ v # ""

\* Python's `a or b`
Or(a, b) == IF Truthy(a) THEN a ELSE b

RECURSIVE SeqSum(_)
SeqSum(s) == IF s = <<>> THEN 0 ELSE Head(s) + SeqSum(Tail(s))

\* All sequences over S of length at most n
SeqsUpTo(S, n) == UNION {[1..k -> S] : k \in 0..n}

(***************************************************************************)
(* wrap_text (lines 258-280).  A text is a sequence of characters; the     *)
(* absent text (None) is NoneText.  font.size(line)[0] is the sum of the   *)
(* widths of the line's characters under the font `widths`.                *)
(***************************************************************************)
Alphabet == {"a", "b", " "}

NoneText == <<None>>

\* Python's `not text`
TextFalsy(text) == text = NoneText \/ text = <<>>

\* font.size(line)[0]
FontSize(widths, line) == SeqSum([i \in 1..Len(line) |-> widths[line[i]]])

\* text.split(' '): one word per separating space, empty words included
RECURSIVE SplitFrom(_, _, _)
SplitFrom(text, i, word) ==
    IF i > Len(text) THEN <<word>>
    ELSE IF text[i] = " " THEN <<word>> \o SplitFrom(text, i + 1, <<>>)
    ELSE SplitFrom(text, i + 1, Append(word, text[i]))

split(text) == SplitFrom(text, 1, <<>>)

\* Faulty variant of WrapLoop: the test of line 271 written <=
RECURSIVE WrapLoopLeq(_, _, _, _, _, _)
WrapLoopLeq(words, i, lines, current_line, widths, max_width) ==
    IF i > Len(words) THEN <<lines, current_line>>
    ELSE LET word == words[i]
             test_line == current_line \o word \o <<" ">>
         IN IF FontSize(widths, test_line) <= max_width
            THEN WrapLoopLeq(words, i + 1, lines, test_line, widths, max_width)
            ELSE WrapLoopLeq(words, i + 1, Append(lines, current_line),
                             word \o <<" ">>, widths, max_width)

\* The for loop of wrap_text: words from position i on, with `lines` and
\* `current_line` as they stand; returns the final <<lines, current_line>>.
RECURSIVE WrapLoop(_, _, _, _, _, _)
WrapLoop(words, i, lines, current_line, widths, max_width) ==
    IF i > Len(words) THEN <<lines, current_line>>
    ELSE LET word == words[i]
             test_line == current_line \o word \o <<" ">>
         IN IF FontSize(widths, test_line) < max_width
            THEN WrapLoop(words, i + 1, lines, test_line, widths, max_width)
            ELSE WrapLoop(words, i + 1, Append(lines, current_line),
                          word \o <<" ">>, widths, max_width)

WrapBody(words, widths, max_width) ==
    WrapLoop(words, 1, <<>>, <<>>, widths, max_width)

wrap_text(text, widths, max_width) ==
    IF TextFalsy(text) THEN <<>>
    ELSE LET r == WrapBody(split(text), widths, max_width)
             lines == r[1]
             current_line == r[2]
         IN IF current_line # <<>> THEN Append(lines, current_line) ELSE lines

Texts == SeqsUpTo(Alphabet, MaxTextLen) \cup {NoneText}

Fonts == [Alphabet -> 1..MaxCharWidth]

WrapInputs == [text : Texts, widths : Fonts, max_width : 0..MaxWidth]

WrapNotCalled == [done |-> FALSE, lines |-> <<>>]

(***************************************************************************)
(* The Plex server as the program sees it.  A session or a library item is *)
(* a function from attribute names to values; an attribute the object      *)
(* lacks is outside its domain (hasattr).                                   *)
(***************************************************************************)
HasAttr(obj, name) == name \in DOMAIN obj

Session(type, title, grandparentArt, usernamesAttr, transcodeSessions) ==
    [type |-> type, title |-> title, summary |-> "plot",
     grandparentTitle |-> "Show", grandparentArt |-> grandparentArt,
     parentArt |-> "/season/art", artUrl |-> "http://plex/art",
     grandparentThumb |-> "/show/thumb", thumb |-> "/thumb",
     thumbUrl |-> "http://plex/thumb",
     viewOffset |-> 30000, duration |-> 90000,
     transcodeSessions |-> transcodeSessions]
    @@ (IF usernamesAttr.present THEN [usernames |-> usernamesAttr.value]
        ELSE [x \in {} |-> None])

UsernamesAttrs == {[present |-> FALSE, value |-> <<>>],
                   [present |-> TRUE, value |-> <<>>],
                   [present |-> TRUE, value |-> <<"alice", "bob">>]}

NormSessions ==
    {Session(t, "Title", g, u, ts) :
        t \in {"episode", "movie"}, g \in {None, "/show/art"},
        u \in UsernamesAttrs, ts \in {<<>>, <<"ts1">>}}

\* Sessions that differ in which art and thumbnail attributes are set: an
\* attribute plexapi did not receive is None, an empty one is ""
ArtSessions ==
    {[Session(t, "Title", gA, [present |-> TRUE, value |-> <<"alice">>], <<>>)
        EXCEPT !.parentArt = pA, !.artUrl = aU, !.grandparentThumb = gT,
               !.thumb = th, !.thumbUrl = tU] :
        t \in {"episode", "movie"}, gA \in {None, "", "/show/art"},
        pA \in {None, "/season/art"}, aU \in {None, "http://plex/art"},
        gT \in {None, "/show/thumb"}, th \in {None, "/thumb"},
        tU \in {None, "http://plex/thumb"}}

\* The session main_loop meets: the loop treats every slide alike, the kinds
\* of sessions are told apart under SpecNorm
LoopSessions ==
    {Session("episode", "Pilot", "/show/art",
             [present |-> TRUE, value |-> <<"alice", "bob">>], <<"ts1">>)}

\* plex.transcodeImage(url, height, width): the URL of the photo transcoder
\* with the source URL as its argument
transcodeImage(imageUrl, height, width) ==
    "http://plex/photo/:/transcode?url=" \o imageUrl

\* What datetime.now() answers in the n iterations of one call of
\* get_currently_playing, in seconds after midnight: the wall clock is read
\* once per session, and a later reading may be earlier than the one before
\* (the clock is set back, daylight saving time ends)
ClockReadings(times, n) == [1..n -> times]

\* datetime.now() is `now` seconds after midnight; strftime('%H:%M:%S')
strftime(seconds) ==
    LET s == seconds % 86400
    IN [H |-> s \div 3600, M |-> (s % 3600) \div 60, S |-> s % 60]

(***************************************************************************)
(* get_currently_playing (lines 46-94): one slide per session.             *)
(***************************************************************************)
\* Faulty variant of fanart_url: the season's art is preferred to the show's
fanart_url_parent_first(session) ==
    IF session.type = "episode"
    THEN Or(session.parentArt, Or(session.grandparentArt, session.artUrl))
    ELSE Or(session.artUrl, session.thumbUrl)

\* Lines 54-61: the source of the background, by the kind of the session
fanart_url(session) ==
    IF session.type = "episode"
    THEN Or(session.grandparentArt, Or(session.parentArt, session.artUrl))
    ELSE Or(session.artUrl, session.thumbUrl)

\* Lines 54-61: the source of the poster, by the kind of the session
poster_url(session) ==
    IF session.type = "episode"
    THEN Or(session.grandparentThumb, session.thumb)
    ELSE session.thumbUrl

\* Faulty variant of user: the last entry of the list instead of the first
user_last(session) ==
    IF HasAttr(session, "usernames") /\ session.usernames # <<>>
    THEN session.usernames[Len(session.usernames)]
    ELSE "Unknown User"

\* Lines 71-74
user(session) ==
    IF HasAttr(session, "usernames") /\ session.usernames # <<>>
    THEN session.usernames[1]
    ELSE "Unknown User"

\* Line 77
play_status(session) ==
    IF session.transcodeSessions # <<>> THEN "Transcoding" ELSE "Direct Play"

PlaybackSlide(session, now) ==
    LET description == IF session.type = "episode"
                       THEN session.grandparentTitle \o ": " \o session.summary
                       ELSE session.summary
        \* milliseconds to seconds; strftime drops the fraction
        estimated_end_time == (now * 1000 + session.duration - session.viewOffset) \div 1000
    IN [title |-> session.title,
        user |-> user(session),
        transcode |-> play_status(session),
        poster_url |-> transcodeImage(poster_url(session), 300, 200),
        fanart_url |-> transcodeImage(fanart_url(session), 480, 800),
        description |-> description,
        end_time |-> strftime(estimated_end_time)]

\* nows[i] is the clock as line 67 reads it for the i-th session
get_currently_playing(sessions, nows) ==
    [i \in 1..Len(sessions) |-> PlaybackSlide(sessions[i], nows[i])]

(***************************************************************************)
(* The library.  plex.fetchItem(key) answers from `db`: db[key].found says *)
(* whether the show exists (fetchItem raises NotFound otherwise),           *)
(* seasons_ok whether show.seasons() answers, and each season says whether *)
(* season.episodes() answers and with how many episodes.                    *)
(***************************************************************************)
NUM_RECENT_ITEMS == 3   \* config['NUM_RECENT_ITEMS']

ShowKey == 10

Item(type, title, thumbUrl) ==
    [type |-> type, title |-> title, summary |-> title \o " summary",
     thumbUrl |-> thumbUrl, artUrl |-> "http://plex/art/" \o title,
     ratingKey |-> IF type = "show" THEN ShowKey ELSE ShowKey + 1,
     parentRatingKey |-> ShowKey]

Show(found, seasons_ok, seasons) ==
    [found |-> found, title |-> "Show", summary |-> "Show summary",
     artUrl |-> "http://plex/art/Show", seasons_ok |-> seasons_ok,
     seasons |-> seasons]

SeasonOf(ok, n) == [episodes_ok |-> ok, episodes |-> n]

ShowFetchFails == Show(FALSE, FALSE, <<>>)
ShowSeasonsFail == Show(TRUE, FALSE, <<>>)
ShowEpisodesFail == Show(TRUE, TRUE, <<SeasonOf(TRUE, 2), SeasonOf(FALSE, 0)>>)
ShowResolves == Show(TRUE, TRUE, <<SeasonOf(TRUE, 2), SeasonOf(TRUE, 3)>>)

NormDBs == {[k \in {ShowKey} |-> sh] :
               sh \in {ShowFetchFails, ShowSeasonsFail, ShowEpisodesFail, ShowResolves}}

LoopDBs == {[k \in {ShowKey} |-> sh] : sh \in {ShowFetchFails, ShowResolves}}

NormItems == {Item("movie", "Film", "http://plex/thumb/Film"),
              Item("movie", "Bare", None),
              Item("season", "Season 1", "http://plex/thumb/S1"),
              Item("show", "Series", "http://plex/thumb/Series"),
              Item("episode", "Episode 1", "http://plex/thumb/E1")}

LoopItems == {Item("movie", "Film", "http://plex/thumb/Film"),
              Item("season", "Season 1", None),
              Item("episode", "Episode 1", "http://plex/thumb/E1")}

(***************************************************************************)
(* get_last_added (lines 97-167).                                          *)
(***************************************************************************)
\* The try block of lines 116-130: the locals at its end, and whether it raised.
\* title, description and fanart_url are assigned from the show before
\* seasons() is called, so they hold the show's values when a later call
\* raises, and are not yet assigned (None here) when fetchItem raises.
ResolveShow(item, db) ==
    LET key == IF item.type = "season" THEN item.parentRatingKey ELSE item.ratingKey
        show == db[key]
        fetched == key \in DOMAIN db /\ show.found
        counted == fetched /\ show.seasons_ok
                   /\ \A i \in 1..Len(show.seasons) : show.seasons[i].episodes_ok
    IN IF counted
       THEN [raised |-> FALSE, title |-> show.title, description |-> show.summary,
             fanart_url |-> show.artUrl, num_seasons |-> Len(show.seasons),
             num_episodes |-> SeqSum([i \in 1..Len(show.seasons) |->
                                         show.seasons[i].episodes])]
       ELSE [raised |-> TRUE,
             title |-> IF fetched THEN show.title ELSE None,
             description |-> IF fetched THEN show.summary ELSE None,
             fanart_url |-> IF fetched THEN show.artUrl ELSE item.artUrl,
             num_seasons |-> 0, num_episodes |-> 0]

\* Faulty variant of ShowFallback: it keeps what the try block left in title
\* and description
ShowFallbackKeepsLocals(item, r) ==
    [title |-> r.title, description |-> r.description,
     fanart_url |-> r.fanart_url, num_seasons |-> 0, num_episodes |-> 0]

\* The except block of lines 132-137
ShowFallback(item, r) ==
    [title |-> item.title, description |-> "Description not available",
     fanart_url |-> r.fanart_url, num_seasons |-> 0, num_episodes |-> 0]

\* Faulty variant of MovieSlide: it carries counts and is marked as a show
MovieSlideAsShow(item) ==
    [title |-> item.title, poster_url |-> item.thumbUrl, fanart_url |-> item.artUrl,
     description |-> item.summary, seasons |-> 0, episodes |-> 0, type |-> "show"]

\* The movie slide of lines 159-165
MovieSlide(item) ==
    [title |-> item.title, poster_url |-> item.thumbUrl, fanart_url |-> item.artUrl,
     description |-> item.summary, type |-> "movie"]

\* The body of the for loop: the slides one item appends (one or none)
LibrarySlides(item, db) ==
    IF item.type = "season" \/ item.type = "show"
    THEN LET r == ResolveShow(item, db)
             v == IF r.raised THEN ShowFallback(item, r) ELSE r
         IN <<[title |-> v.title, poster_url |-> item.thumbUrl,
               fanart_url |-> v.fanart_url, description |-> v.description,
               seasons |-> v.num_seasons, episodes |-> v.num_episodes,
               type |-> "show"]>>
    ELSE IF item.type = "movie" THEN <<MovieSlide(item)>>
    ELSE <<>>

RECURSIVE LastAddedFrom(_, _, _)
LastAddedFrom(items, i, db) ==
    IF i > Len(items) THEN <<>>
    ELSE LibrarySlides(items[i], db) \o LastAddedFrom(items, i + 1, db)

\* recentlyAdded()[:num_items]
Slice(items, n) == SubSeq(items, 1, IF Len(items) < n THEN Len(items) ELSE n)

\* Faulty variant of get_last_added: the whole list instead of its head
get_last_added_unsliced(recentlyAdded, db) ==
    LastAddedFrom(recentlyAdded, 1, db)

get_last_added(recentlyAdded, db) ==
    LastAddedFrom(Slice(recentlyAdded, NUM_RECENT_ITEMS), 1, db)

(***************************************************************************)
(* fetch_poster (lines 171-181).  `response` is what the network does with *)
(* the request.  requests.get raises on a URL without a scheme (None or    *)
(* the empty string) and on a connection error; Image.open raises on data  *)
(* that is no image; a status other than 200 returns None.                 *)
(***************************************************************************)
Responses == {"200 image", "200 garbage", "404", "connection error"}

Raise == "<raise>"

fetch_poster(url, response) ==
    IF ~Truthy(url) THEN Raise
    ELSE IF response = "connection error" THEN Raise
    ELSE IF response = "404" THEN None
    ELSE IF response = "200 garbage" THEN Raise
    ELSE "surface"

(***************************************************************************)
(* display_info (lines 184-253): what it draws, or that it raised.  The    *)
(* poster is fetched only if the fanart fetch returned.                     *)
(***************************************************************************)
ShowsSeasonRows(media_item) ==
    HasAttr(media_item, "type") /\ media_item.type \in {"show", "season"}

ShowsPlaybackRows(media_item) ==
    HasAttr(media_item, "user") /\ HasAttr(media_item, "transcode")

display_info(media_item, fanart_response, poster_response) ==
    LET fanart == fetch_poster(media_item.fanart_url, fanart_response)
        poster == fetch_poster(media_item.poster_url, poster_response)
    IN IF fanart = Raise \/ poster = Raise
       THEN [raised |-> TRUE, background |-> None, poster |-> FALSE]
       ELSE [raised |-> FALSE,
             background |-> IF fanart # None THEN "fanart" ELSE "fill",
             poster |-> poster # None]

(***************************************************************************)
(* The operations display_info and display_time_and_info perform on the   *)
(* pygame display, in the order of the calls.  The description of the     *)
(* slide is given as a text (a sequence of characters) so that wrap_text   *)
(* applies to it; font.size under `font` is DrawFont and the 500 pixels of *)
(* line 224 are DrawWidth.                                                  *)
(***************************************************************************)
MaxDescriptionLines == 5

DrawWidth == 4

DrawFont == [c \in Alphabet |-> 1]

\* "No description available": three words
DefaultDescription == <<"a", " ", "b", " ", "a">>

\* Faulty variant of description_lines: the slice of line 225 missing
description_lines_unsliced(description) ==
    wrap_text(IF TextFalsy(description) THEN DefaultDescription ELSE description,
              DrawFont, DrawWidth)

\* Lines 221-225
description_lines(description) ==
    Slice(wrap_text(IF TextFalsy(description) THEN DefaultDescription ELSE description,
                    DrawFont, DrawWidth),
          MaxDescriptionLines)

\* Lines 213-251: everything drawn after the poster, then the update
TextOps(media_item, description) ==
    <<"blit title_shadow", "blit title">>
    \o [i \in 1..Len(description_lines(description)) |-> "blit description"]
    \o (IF ShowsSeasonRows(media_item) THEN <<"blit seasons", "blit episodes">> ELSE <<>>)
    \o (IF ShowsPlaybackRows(media_item) THEN <<"blit user", "blit status">> ELSE <<>>)
    \o <<"update">>

\* Lines 190-253.  An exception of fetch_poster leaves display_info where it
\* is raised: what was drawn before stays drawn, nothing follows.
display_info_ops(media_item, description, fanart_response, poster_response) ==
    LET fanart == fetch_poster(media_item.fanart_url, fanart_response)
        poster == fetch_poster(media_item.poster_url, poster_response)
        background == <<"clear", IF fanart # None THEN "blit fanart" ELSE "fill",
                        "blit overlay">>
    IN IF fanart = Raise THEN [returned |-> FALSE, ops |-> <<"clear">>]
       ELSE IF poster = Raise THEN [returned |-> FALSE, ops |-> background]
       ELSE [returned |-> TRUE,
             ops |-> background
                     \o (IF poster # None THEN <<"blit poster">> ELSE <<>>)
                     \o TextOps(media_item, description)]

\* Lines 289-329.  The queries of lines 299-306 come before the first
\* operation on the display; if one raises nothing is drawn.
display_time_and_info_ops(queries_ok) ==
    IF ~queries_ok THEN [returned |-> FALSE, ops |-> <<>>]
    ELSE [returned |-> TRUE,
          ops |-> <<"clear", "blit time", "blit movies", "blit tv_shows",
                    "blit currently_playing", "update">>]

(***************************************************************************)
(* pygame events.                                                          *)
(***************************************************************************)
EventKinds == {[type |-> "QUIT", key |-> None],
               [type |-> "KEYDOWN", key |-> "K_ESCAPE"],
               [type |-> "KEYDOWN", key |-> "K_a"],
               [type |-> "MOUSEMOTION", key |-> None]}

\* Faulty variant of StopsLoop: any key press stops the loop
StopsLoopAnyKey(event) ==
    \/ event.type = "QUIT"
    \/ event.type = "KEYDOWN"

\* Lines 376-380: does this event clear `running`?
StopsLoop(event) ==
    \/ event.type = "QUIT"
    \/ event.type = "KEYDOWN" /\ event.key = "K_ESCAPE"

\* The for loop over pygame.event.get(): the value of `running` after it
AfterEvents(run, queue) ==
    IF \E i \in 1..Len(queue) : StopsLoop(queue[i]) THEN FALSE ELSE run

\* Faulty variant of slide_source: the test of line 367 inverted
slide_source_inverted(now_playing, last_added) ==
    IF now_playing = <<>> THEN now_playing ELSE last_added

\* Line 367
slide_source(now_playing, last_added) ==
    IF now_playing # <<>> THEN now_playing ELSE last_added

SessionAnswers == SeqsUpTo(LoopSessions, MaxSessions)

RecentAnswers == SeqsUpTo(LoopItems, NUM_RECENT_ITEMS + MaxExtra)

\* The clock in the loop: it may tick between two sessions of a call
LoopTimes == {0, 1}

\* What get_currently_playing() can return in the loop
NowPlayingAnswers ==
    UNION {{get_currently_playing(sessions, nows) :
               nows \in ClockReadings(LoopTimes, Len(sessions))} :
           sessions \in SessionAnswers}

\* What get_last_added() can return in the loop
LastAddedAnswers ==
    {get_last_added(recentlyAdded, db) : recentlyAdded \in RecentAnswers, db \in LoopDBs}

NotPolled == [state |-> "none", now_playing |-> <<>>, used_recent |-> FALSE,
              last_added |-> <<>>]

\* The entries of `rendered`
SlideScreen(i, media_item) == [screen |-> "slide", pos |-> i, item |-> media_item]

IdleScreen(num_currently_playing) ==
    [screen |-> "idle", pos |-> 0, item |-> [playing |-> num_currently_playing]]

\* The display before anything is drawn, and after display_time_and_info
Blank == [raised |-> FALSE, background |-> "blank", poster |-> FALSE]

Clock == [raised |-> FALSE, background |-> "clock", poster |-> FALSE]

(***************************************************************************)
(* main_loop (lines 357-386) and its environment.                          *)
(***************************************************************************)
NoWrap == [text |-> <<>>, widths |-> [c \in Alphabet |-> 1], max_width |-> 0]

NoNorm == [kind |-> "none", sessions |-> <<>>, nows |-> <<>>, items |-> <<>>,
           db |-> [k \in {ShowKey} |-> ShowFetchFails]]

NormNotCalled == [done |-> FALSE, slides |-> <<>>]

NoDraw == [call |-> "none", media_item |-> [title |-> "none"], description |-> <<>>,
           fanart_response |-> "404", poster_response |-> "404", queries_ok |-> TRUE]

NotDrawn == [done |-> FALSE, returned |-> FALSE, ops |-> <<>>]

DISPLAY_TIME == 5   \* config['DISPLAY_TIME'], read once at import

\* Nothing slept and nothing queried yet.  dwells and slept count the
\* time.sleep calls and their seconds, queries the get_currently_playing()
\* calls that returned, idle_sessions the number of slides the call of line
\* 306 returned (display_time_and_info keeps nothing else of them).
NoTally == [dwells |-> 0, slept |-> 0, queries |-> 0, idle_sessions |-> 0]

\* time.sleep(seconds) returned
sleep(t, seconds) == [t EXCEPT !.dwells = @ + 1, !.slept = @ + seconds]

\* Line 306
num_currently_playing(now_playing) == Len(now_playing)

Init ==
    /\ pc = "poll"
    /\ running = TRUE
    /\ media_to_display = <<>>
    /\ idx = 0
    /\ events = <<>>
    /\ screen = Blank
    /\ rendered = <<>>
    /\ polled = NotPolled
    /\ quitAt = "none"
    /\ crashCause = "none"
    /\ tally = NoTally
    /\ wrap_in = NoWrap
    /\ wrap_out = WrapNotCalled
    /\ norm_in = NoNorm
    /\ norm_out = NormNotCalled
    /\ draw_in = NoDraw
    /\ draw_out = NotDrawn

\* An uncaught exception leaves main_loop: nothing catches it
Crash(cause) ==
    /\ pc' = "crashed"
    /\ crashCause' = cause

\* Lines 364-367, plex.sessions() raising
PollSessionsFail ==
    /\ pc = "poll"
    /\ Crash("plex.sessions")
    /\ rendered' = <<>>
    /\ polled' = [NotPolled EXCEPT !.state = "failed"]
    /\ tally' = NoTally
    /\ UNCHANGED <<screen, running, media_to_display, idx, events, quitAt>>
    /\ UNCHANGED pureVars

\* Lines 364-367, something is playing: get_last_added is not called
PollPlaying ==
    /\ pc = "poll"
    /\ \E now_playing \in NowPlayingAnswers :
          /\ now_playing # <<>>
          /\ media_to_display' = slide_source(now_playing, <<>>)
          /\ polled' = [state |-> "ok", now_playing |-> now_playing,
                        used_recent |-> FALSE, last_added |-> <<>>]
    /\ rendered' = <<>>
    /\ tally' = [NoTally EXCEPT !.queries = 1]
    /\ idx' = 1
    /\ pc' = IF media_to_display' # <<>> THEN "render" ELSE "idle"
    /\ UNCHANGED <<screen, running, events, quitAt, crashCause>>
    /\ UNCHANGED pureVars

\* Lines 364-367, nothing is playing and plex.library.recentlyAdded() raises
PollRecentFail ==
    /\ pc = "poll"
    /\ Crash("plex.library.recentlyAdded")
    /\ rendered' = <<>>
    /\ polled' = [NotPolled EXCEPT !.state = "failed", !.used_recent = TRUE]
    /\ tally' = [NoTally EXCEPT !.queries = 1]
    /\ UNCHANGED <<screen, running, media_to_display, idx, events, quitAt>>
    /\ UNCHANGED pureVars

\* Lines 364-367, nothing is playing: the slides are get_last_added()
PollRecent ==
    /\ pc = "poll"
    /\ \E now_playing \in NowPlayingAnswers, last_added \in LastAddedAnswers :
          /\ now_playing = <<>>
          /\ media_to_display' = slide_source(now_playing, last_added)
          /\ polled' = [state |-> "ok", now_playing |-> now_playing,
                        used_recent |-> TRUE, last_added |-> last_added]
    /\ rendered' = <<>>
    /\ tally' = [NoTally EXCEPT !.queries = 1]
    /\ idx' = 1
    /\ pc' = IF media_to_display' # <<>> THEN "render" ELSE "idle"
    /\ UNCHANGED <<screen, running, events, quitAt, crashCause>>
    /\ UNCHANGED pureVars

\* Line 371, display_info returns: the slide is on screen
DisplayInfo ==
    /\ pc = "render"
    /\ \E fanart_response \in Responses, poster_response \in Responses :
          LET media_item == media_to_display[idx]
              drawn == display_info(media_item, fanart_response, poster_response)
          IN /\ ~drawn.raised
             /\ screen' = drawn
             /\ rendered' = Append(rendered, SlideScreen(idx, media_item))
    /\ pc' = "sleep"
    /\ UNCHANGED <<running, media_to_display, idx, events, polled, quitAt, crashCause, tally>>
    /\ UNCHANGED pureVars

\* Line 371, fetch_poster raises inside display_info
DisplayInfoRaises ==
    /\ pc = "render"
    /\ \E fanart_response \in Responses, poster_response \in Responses :
          display_info(media_to_display[idx], fanart_response, poster_response).raised
    /\ Crash("fetch_poster")
    /\ UNCHANGED <<screen, running, media_to_display, idx, events, rendered, polled, quitAt,
                   tally>>
    /\ UNCHANGED pureVars

\* Line 372, time.sleep(DISPLAY_TIME) returns
Sleep ==
    /\ pc = "sleep"
    /\ tally' = sleep(tally, DISPLAY_TIME)
    /\ pc' = "events"
    /\ UNCHANGED <<screen, running, media_to_display, idx, events, rendered, polled, quitAt,
                   crashCause>>
    /\ UNCHANGED pureVars

\* Faulty variant of CheckEvents: a stop event breaks out of the for loop and
\* of the while loop at once
CheckEventsBreaks ==
    /\ pc = "events"
    /\ running' = AfterEvents(running, events)
    /\ events' = <<>>
    /\ IF ~running' THEN idx' = idx /\ pc' = "done"
       ELSE IF idx < Len(media_to_display)
       THEN idx' = idx + 1 /\ pc' = "render"
       ELSE idx' = idx /\ pc' = "idle"
    /\ UNCHANGED <<screen, media_to_display, rendered, polled, quitAt, crashCause, tally>>
    /\ UNCHANGED pureVars

\* Lines 375-380, then the for loop of line 370 moves on
CheckEvents ==
    /\ pc = "events"
    /\ running' = AfterEvents(running, events)
    /\ events' = <<>>
    /\ IF idx < Len(media_to_display)
       THEN idx' = idx + 1 /\ pc' = "render"
       ELSE idx' = idx /\ pc' = "idle"
    /\ UNCHANGED <<screen, media_to_display, rendered, polled, quitAt, crashCause, tally>>
    /\ UNCHANGED pureVars

\* Faulty variant of DisplayTimeAndInfo: the counter is taken from the
\* sessions the cycle polled, without a second query
DisplayTimeAndInfoReusesPoll ==
    /\ pc = "idle"
    /\ tally' = [tally EXCEPT !.idle_sessions = Len(polled.now_playing)]
    /\ rendered' = Append(rendered, IdleScreen(num_currently_playing(polled.now_playing)))
    /\ screen' = Clock
    /\ pc' = "idle_sleep"
    /\ UNCHANGED <<running, media_to_display, idx, events, polled, quitAt, crashCause>>
    /\ UNCHANGED pureVars

\* Line 383, display_time_and_info: the counters are queried, then drawn
DisplayTimeAndInfo ==
    /\ pc = "idle"
    /\ \E now_playing \in NowPlayingAnswers :
          /\ tally' = [tally EXCEPT !.queries = @ + 1, !.idle_sessions = Len(now_playing)]
          /\ rendered' = Append(rendered, IdleScreen(num_currently_playing(now_playing)))
    /\ screen' = Clock
    /\ pc' = "idle_sleep"
    /\ UNCHANGED <<running, media_to_display, idx, events, polled, quitAt, crashCause>>
    /\ UNCHANGED pureVars

\* Line 383, a query of display_time_and_info raises (lines 299-306)
DisplayTimeAndInfoRaises ==
    /\ pc = "idle"
    /\ Crash("display_time_and_info")
    /\ UNCHANGED <<screen, running, media_to_display, idx, events, rendered, polled, quitAt,
                   tally>>
    /\ UNCHANGED pureVars

\* Faulty variant of IdleSleep: the idle screen is not held, the test of
\* line 363 follows line 383 at once
IdleSleepNoDwell ==
    /\ pc = "idle_sleep"
    /\ pc' = IF running THEN "poll" ELSE "done"
    /\ UNCHANGED <<screen, running, media_to_display, idx, events, rendered, polled, quitAt,
                   crashCause, tally>>
    /\ UNCHANGED pureVars

\* Line 384, time.sleep(DISPLAY_TIME) returns, then the test of line 363
\* and, when it fails, pygame.quit() of line 386
IdleSleep ==
    /\ pc = "idle_sleep"
    /\ tally' = sleep(tally, DISPLAY_TIME)
    /\ pc' = IF running THEN "poll" ELSE "done"
    /\ UNCHANGED <<screen, running, media_to_display, idx, events, rendered, polled, quitAt,
                   crashCause>>
    /\ UNCHANGED pureVars

\* The user or the window manager: an event enters pygame's queue
PostEvent ==
    /\ pc \notin {"done", "crashed"}
    /\ Len(events) < MaxQueue
    /\ \E event \in EventKinds :
          /\ events' = Append(events, event)
          /\ quitAt' = IF StopsLoop(event) /\ quitAt = "none"
                        THEN (IF pc \in {"sleep", "idle_sleep"} THEN pc ELSE "elsewhere")
                        ELSE quitAt
    /\ UNCHANGED <<screen, pc, running, media_to_display, idx, rendered, polled, crashCause,
                   tally>>
    /\ UNCHANGED pureVars

LoopStep ==
    \/ PollSessionsFail
    \/ PollPlaying
    \/ PollRecentFail
    \/ PollRecent
    \/ DisplayInfo
    \/ DisplayInfoRaises
    \/ Sleep
    \/ CheckEvents
    \/ DisplayTimeAndInfo
    \/ DisplayTimeAndInfoRaises
    \/ IdleSleep

Next ==
    \/ PollSessionsFail
    \/ PollPlaying
    \/ PollRecentFail
    \/ PollRecent
    \/ DisplayInfo
    \/ DisplayInfoRaises
    \/ Sleep
    \/ CheckEvents
    \/ DisplayTimeAndInfo
    \/ DisplayTimeAndInfoRaises
    \/ IdleSleep
    \/ PostEvent

Spec == Init /\ [][Next]_vars

\* The loop is a running program: a step it can take, it takes
FairSpec == Spec /\ WF_vars(LoopStep)

(***************************************************************************)
(* SpecWrap: wrap_text called once on each bounded input.                  *)
(***************************************************************************)
LoopIdle ==
    /\ pc = "pure"
    /\ running = TRUE
    /\ media_to_display = <<>>
    /\ idx = 0
    /\ events = <<>>
    /\ screen = Blank
    /\ rendered = <<>>
    /\ polled = NotPolled
    /\ quitAt = "none"
    /\ crashCause = "none"
    /\ tally = NoTally

InitWrap ==
    /\ LoopIdle
    /\ wrap_in \in WrapInputs
    /\ wrap_out = WrapNotCalled
    /\ norm_in = NoNorm
    /\ norm_out = NormNotCalled
    /\ draw_in = NoDraw
    /\ draw_out = NotDrawn

CallWrapText ==
    /\ ~wrap_out.done
    /\ wrap_out' = [done |-> TRUE,
                    lines |-> wrap_text(wrap_in.text, wrap_in.widths, wrap_in.max_width)]
    /\ UNCHANGED <<wrap_in, norm_in, norm_out, draw_in, draw_out>>
    /\ UNCHANGED loopVars

NextWrap == CallWrapText

SpecWrap == InitWrap /\ [][NextWrap]_vars

(***************************************************************************)
(* SpecNorm: get_currently_playing and get_last_added called once on each  *)
(* bounded catalog answer.                                                  *)
(***************************************************************************)
Times == {0, 86369, 86370}

NormInputs ==
    UNION {[kind : {"playback"}, sessions : [1..k -> NormSessions],
            nows : ClockReadings(Times, k), items : {<<>>}, db : {NoNorm.db}] :
           k \in 0..MaxSessions}
    \cup
    [kind : {"playback"}, sessions : {<<s>> : s \in ArtSessions}, nows : {<<0>>},
     items : {<<>>}, db : {NoNorm.db}]
    \cup
    [kind : {"library"}, sessions : {<<>>}, nows : {<<>>},
     items : SeqsUpTo(NormItems, NUM_RECENT_ITEMS + MaxExtra), db : NormDBs]

InitNorm ==
    /\ LoopIdle
    /\ wrap_in = NoWrap
    /\ wrap_out = WrapNotCalled
    /\ norm_in \in NormInputs
    /\ norm_out = NormNotCalled
    /\ draw_in = NoDraw
    /\ draw_out = NotDrawn

CallGetCurrentlyPlaying ==
    /\ ~norm_out.done
    /\ norm_in.kind = "playback"
    /\ norm_out' = [done |-> TRUE,
                    slides |-> get_currently_playing(norm_in.sessions, norm_in.nows)]
    /\ UNCHANGED <<wrap_in, wrap_out, norm_in, draw_in, draw_out>>
    /\ UNCHANGED loopVars

CallGetLastAdded ==
    /\ ~norm_out.done
    /\ norm_in.kind = "library"
    /\ norm_out' = [done |-> TRUE,
                    slides |-> get_last_added(norm_in.items, norm_in.db)]
    /\ UNCHANGED <<wrap_in, wrap_out, norm_in, draw_in, draw_out>>
    /\ UNCHANGED loopVars

NextNorm ==
    \/ CallGetCurrentlyPlaying
    \/ CallGetLastAdded

SpecNorm == InitNorm /\ [][NextNorm]_vars

(***************************************************************************)
(* SpecDraw: display_info and display_time_and_info called once on each    *)
(* bounded slide and each answer of the image fetches and of the queries.  *)
(***************************************************************************)
MaxDrawWords == 7

\* k one-letter words with single spaces between them
Words(k) == [i \in 1..(IF k = 0 THEN 0 ELSE 2 * k - 1) |-> IF i % 2 = 1 THEN "a" ELSE " "]

DrawTexts == {NoneText} \cup {Words(k) : k \in 0..MaxDrawWords}

\* Playback slides, movie slides and show slides, some without a poster URL
DrawItems ==
    {PlaybackSlide(session, 0) : session \in LoopSessions}
    \cup UNION {{slides[i] : i \in 1..Len(slides)} :
                  slides \in {LibrarySlides(item, db) : item \in NormItems, db \in LoopDBs}}

DrawInputs ==
    [call : {"display_info"}, media_item : DrawItems, description : DrawTexts,
     fanart_response : Responses, poster_response : Responses, queries_ok : {TRUE}]
    \cup
    [call : {"display_time_and_info"}, media_item : {NoDraw.media_item},
     description : {<<>>}, fanart_response : {"404"}, poster_response : {"404"},
     queries_ok : BOOLEAN]

InitDraw ==
    /\ LoopIdle
    /\ wrap_in = NoWrap
    /\ wrap_out = WrapNotCalled
    /\ norm_in = NoNorm
    /\ norm_out = NormNotCalled
    /\ draw_in \in DrawInputs
    /\ draw_out = NotDrawn

CallDisplayInfo ==
    /\ ~draw_out.done
    /\ draw_in.call = "display_info"
    /\ LET r == display_info_ops(draw_in.media_item, draw_in.description,
                                 draw_in.fanart_response, draw_in.poster_response)
       IN draw_out' = [done |-> TRUE, returned |-> r.returned, ops |-> r.ops]
    /\ UNCHANGED <<wrap_in, wrap_out, norm_in, norm_out, draw_in>>
    /\ UNCHANGED loopVars

CallDisplayTimeAndInfo ==
    /\ ~draw_out.done
    /\ draw_in.call = "display_time_and_info"
    /\ LET r == display_time_and_info_ops(draw_in.queries_ok)
       IN draw_out' = [done |-> TRUE, returned |-> r.returned, ops |-> r.ops]
    /\ UNCHANGED <<wrap_in, wrap_out, norm_in, norm_out, draw_in>>
    /\ UNCHANGED loopVars

NextDraw ==
    \/ CallDisplayInfo
    \/ CallDisplayTimeAndInfo

SpecDraw == InitDraw /\ [][NextDraw]_vars

(***************************************************************************)
(* Properties of main_loop.                                                *)
(***************************************************************************)
\* A cycle is over: the loop is back at the poll, or has left
CycleOver ==
    \/ pc \in {"done", "crashed"}
    \/ pc = "poll" /\ polled.state # "none"

\* rendered is exactly the slides, in order, then one idle screen
RenderedAllThenIdle(slides) ==
    /\ Len(rendered) = Len(slides) + 1
    /\ \A i \in 1..Len(slides) :
          /\ rendered[i].screen = "slide"
          /\ rendered[i].pos = i
          /\ rendered[i].item = slides[i]
    /\ rendered[Len(rendered)].screen = "idle"

\* C1: in every cycle where get_currently_playing returned no items and
\* get_last_added returned n items, the loop renders exactly the n slides in
\* source order and then exactly one idle screen before it polls again.
C1_CycleRendersAllThenIdle ==
    (CycleOver /\ polled.state = "ok" /\ polled.now_playing = <<>>)
        => RenderedAllThenIdle(polled.last_added)

\* A quit signal arrived while the loop was in time.sleep (line 372 or 384)
QuitArrivedInDwell == quitAt \in {"sleep", "idle_sleep"}

\* C2: once a quit signal has arrived during a dwell wait, the loop renders no
\* further slide and no further idle screen.
C2_NoRenderAfterQuitInDwell ==
    [][QuitArrivedInDwell => Len(rendered') <= Len(rendered)]_vars

\* C3: once a quit signal has been delivered, main_loop eventually leaves the
\* loop, whatever the catalog answers.  Leaving by an uncaught exception is
\* counted as leaving here, so that a violation shows a loop that never ends.
C3_QuitLeadsToExit ==
    (quitAt # "none") ~> (pc \in {"done", "crashed"})

\* C4: a catalog query that fails is treated as "no items"; the process never
\* ends because of it.
C4_QueryFailureDoesNotCrash ==
    /\ polled.state = "failed" => pc # "crashed"
    /\ crashCause \notin {"plex.sessions", "plex.library.recentlyAdded",
                          "display_time_and_info"}

\* C5: an image fetch with an empty URL, a non-success response, a network
\* failure or a decode failure yields "no image"; the slide is still rendered
\* and the loop goes on.
C5_FetchFailureDoesNotAbort ==
    /\ crashCause # "fetch_poster"
    /\ pc = "crashed" => ~(polled.state = "ok" /\ Len(rendered) < Len(media_to_display))

\* C6: after each poll, if get_currently_playing() was non-empty the cycle's
\* slides are exactly the playback slides and get_last_added was not called;
\* if it was empty the slides are those of get_last_added().  Every slide
\* rendered in the cycle is the slide at its position of that one source, so
\* a cycle never mixes playback slides and library slides.
C6_OneSlideSource ==
    polled.state = "ok" =>
        /\ polled.now_playing # <<>> =>
              media_to_display = polled.now_playing /\ ~polled.used_recent
        /\ polled.now_playing = <<>> =>
              media_to_display = polled.last_added /\ polled.used_recent
        /\ \A i \in 1..Len(rendered) :
              rendered[i].screen = "slide" =>
                 /\ rendered[i].pos \in 1..Len(media_to_display)
                 /\ rendered[i].item = media_to_display[rendered[i].pos]
                 /\ ShowsPlaybackRows(rendered[i].item) = (polled.now_playing # <<>>)

\* Two playback slides and the idle screen were rendered in one cycle
C6_Witness ==
    /\ pc = "idle_sleep"
    /\ Len(polled.now_playing) = 2
    /\ Len(rendered) = 3
    /\ ShowsPlaybackRows(rendered[2].item)

(***************************************************************************)
(* Properties of slide normalization (SpecNorm).                           *)
(***************************************************************************)
\* The library items get_last_added looks at and makes a slide of
Displayable(items) ==
    SelectSeq(Slice(items, NUM_RECENT_ITEMS),
              LAMBDA item : item.type \in {"movie", "show", "season"})

\* Show resolution fails at some step: fetching the show, listing its
\* seasons, or listing the episodes of one of them
ResolutionFails(item, db) ==
    LET key == IF item.type = "season" THEN item.parentRatingKey ELSE item.ratingKey
    IN \/ key \notin DOMAIN db
       \/ ~db[key].found
       \/ ~db[key].seasons_ok
       \/ \E i \in 1..Len(db[key].seasons) : ~db[key].seasons[i].episodes_ok

LibraryDone == norm_out.done /\ norm_in.kind = "library"

\* C7: a season/show item whose show resolution fails at any step gives a
\* slide with the item's own title, the description "Description not
\* available" and zero seasons and episodes, and get_last_added still emits a
\* slide for every movie, show and season item, in order.
C7_ResolutionFailureDegrades ==
    LibraryDone =>
        LET items == Displayable(norm_in.items)
            slides == norm_out.slides
        IN /\ Len(slides) = Len(items)
           /\ \A i \in 1..Len(items) :
                 /\ slides[i].poster_url = items[i].thumbUrl
                 /\ (items[i].type \in {"show", "season"}
                     /\ ResolutionFails(items[i], norm_in.db)) =>
                       /\ slides[i].title = items[i].title
                       /\ slides[i].description = "Description not available"
                       /\ slides[i].seasons = 0
                       /\ slides[i].episodes = 0
                 /\ items[i].type = "movie" => slides[i].title = items[i].title

\* A season whose show is found but whose seasons cannot be listed, followed
\* by a movie: both slides are emitted
C7_Witness ==
    /\ LibraryDone
    /\ Len(norm_in.items) >= 2
    /\ norm_in.items[1].type = "season"
    /\ norm_in.items[2].type = "movie"
    /\ norm_in.db[ShowKey].found /\ ~norm_in.db[ShowKey].seasons_ok
    /\ Len(norm_out.slides) >= 2
    /\ norm_out.slides[1].description = "Description not available"

HasSeasonEpisodeInfo(slide) == HasAttr(slide, "seasons") /\ HasAttr(slide, "episodes")

HasPlaybackInfo(slide) == HasAttr(slide, "user") /\ HasAttr(slide, "transcode")

\* C8 as claimed: every slide has exactly one of the season/episode counts and
\* the viewer/play mode populated.
C8_ExactlyOneInfo ==
    norm_out.done =>
        \A i \in 1..Len(norm_out.slides) :
            HasSeasonEpisodeInfo(norm_out.slides[i]) # HasPlaybackInfo(norm_out.slides[i])

\* C8 as amended: no slide has both; a playback slide has the viewer/play mode
\* only, a show or season slide has the counts only, and a movie slide of the
\* library has neither.  display_info draws the rows of what is populated.
C8_AtMostOneInfo ==
    norm_out.done =>
        \A i \in 1..Len(norm_out.slides) :
            LET slide == norm_out.slides[i]
            IN /\ ~(HasSeasonEpisodeInfo(slide) /\ HasPlaybackInfo(slide))
               /\ ShowsSeasonRows(slide) = HasSeasonEpisodeInfo(slide)
               /\ ShowsPlaybackRows(slide) = HasPlaybackInfo(slide)
               /\ norm_in.kind = "playback" =>
                     HasPlaybackInfo(slide) /\ ~HasSeasonEpisodeInfo(slide)
               /\ norm_in.kind = "library" =>
                     /\ ~HasPlaybackInfo(slide)
                     /\ HasSeasonEpisodeInfo(slide)
                            = (Displayable(norm_in.items)[i].type \in {"show", "season"})

\* A library movie slide: neither is populated
C8_Witness ==
    /\ LibraryDone
    /\ \E i \in 1..Len(norm_out.slides) :
          /\ Displayable(norm_in.items)[i].type = "movie"
          /\ ~HasSeasonEpisodeInfo(norm_out.slides[i])
          /\ ~HasPlaybackInfo(norm_out.slides[i])

(***************************************************************************)
(* Properties of wrap_text (SpecWrap).                                     *)
(***************************************************************************)
\* The line is one word (possibly empty) followed by the trailing space
IsSingleWord(line) ==
    /\ Len(line) >= 1
    /\ line[Len(line)] = " "
    /\ \A i \in 1..(Len(line) - 1) : line[i] # " "

\* The line without its trailing space
Stripped(line) ==
    IF Len(line) >= 1 /\ line[Len(line)] = " " THEN SubSeq(line, 1, Len(line) - 1)
    ELSE line

LineWidth(line) == FontSize(wrap_in.widths, line)

\* C9 as claimed: every line has measured width <= max_width, except a line
\* that is a single word which alone is wider than max_width.
C9_LinesFitUnlessWordTooWide ==
    wrap_out.done =>
        \A i \in 1..Len(wrap_out.lines) :
            LET line == wrap_out.lines[i]
            IN \/ LineWidth(line) <= wrap_in.max_width
               \/ IsSingleWord(line) /\ LineWidth(Stripped(line)) > wrap_in.max_width

\* C9 as amended: every line has measured width <= max_width (a line that is
\* not empty even < max_width, the test of line 271 being strict), except a
\* line that is a single word and its trailing space; that word alone need
\* not be wider than max_width.
C9_LinesFitUnlessSingleWord ==
    wrap_out.done =>
        \A i \in 1..Len(wrap_out.lines) :
            LET line == wrap_out.lines[i]
            IN \/ IsSingleWord(line)
               \/ /\ LineWidth(line) <= wrap_in.max_width
                  /\ line # <<>> => LineWidth(line) < wrap_in.max_width

\* A line that fits, followed by a one-word line that is wider than max_width
\* although its word alone is not
C9_Witness ==
    /\ wrap_out.done
    /\ Len(wrap_out.lines) = 2
    /\ wrap_out.lines[1] # <<>>
    /\ LineWidth(wrap_out.lines[1]) < wrap_in.max_width
    /\ LET line == wrap_out.lines[2]
       IN /\ IsSingleWord(line)
          /\ LineWidth(line) > wrap_in.max_width
          /\ LineWidth(Stripped(line)) <= wrap_in.max_width
          /\ Stripped(line) # <<>>

RECURSIVE JoinWithSpaces(_)
JoinWithSpaces(lines) ==
    IF lines = <<>> THEN <<>>
    ELSE IF Len(lines) = 1 THEN lines[1]
    ELSE lines[1] \o <<" ">> \o JoinWithSpaces(Tail(lines))

\* C10: empty or absent text gives no lines; for any other text every line
\* contributes a word and the lines (each without its trailing space), joined
\* with single spaces, are the text again.
C10_RoundTrip ==
    wrap_out.done =>
        IF TextFalsy(wrap_in.text) THEN wrap_out.lines = <<>>
        ELSE /\ \A i \in 1..Len(wrap_out.lines) : wrap_out.lines[i] # <<>>
             /\ JoinWithSpaces([i \in 1..Len(wrap_out.lines) |->
                                   Stripped(wrap_out.lines[i])]) = wrap_in.text

(***************************************************************************)
(* Properties of get_currently_playing: the slide of one session.          *)
(***************************************************************************)
\* The first entry of a priority list that is neither None nor ""
FirstNonEmpty(urls) ==
    urls[CHOOSE i \in 1..Len(urls) :
            Truthy(urls[i]) /\ \A j \in 1..(i - 1) : ~Truthy(urls[j])]

SomeNonEmpty(urls) == \E i \in 1..Len(urls) : Truthy(urls[i])

\* The slide shows `urls`' first non-empty entry, transcoded to h x w
ShowsFirstOf(shown, urls, h, w) ==
    SomeNonEmpty(urls) => shown = transcodeImage(FirstNonEmpty(urls), h, w)

\* C11: the fanart of an episode slide is the first non-empty of grandparent
\* art, parent art and item art, and its poster the first non-empty of
\* grandparent thumbnail and item thumbnail; for any other session the fanart
\* is the first non-empty of item art and item thumbnail and the poster is the
\* item thumbnail.
C11_ArtPriority ==
    (norm_out.done /\ norm_in.kind = "playback") =>
        \A i \in 1..Len(norm_in.sessions) :
            LET s == norm_in.sessions[i]
                slide == norm_out.slides[i]
            IN IF s.type = "episode"
               THEN /\ ShowsFirstOf(slide.fanart_url,
                                    <<s.grandparentArt, s.parentArt, s.artUrl>>, 480, 800)
                    /\ ShowsFirstOf(slide.poster_url,
                                    <<s.grandparentThumb, s.thumb>>, 300, 200)
               ELSE /\ ShowsFirstOf(slide.fanart_url, <<s.artUrl, s.thumbUrl>>, 480, 800)
                    /\ slide.poster_url = transcodeImage(s.thumbUrl, 300, 200)

\* An episode whose grandparent art, parent art and item art are all set: the
\* slide carries the grandparent art
C11_Witness ==
    /\ norm_out.done
    /\ norm_in.kind = "playback"
    /\ Len(norm_in.sessions) = 1
    /\ LET s == norm_in.sessions[1]
       IN /\ s.type = "episode"
          /\ s.grandparentArt = "/show/art"
          /\ s.parentArt = "/season/art"
          /\ s.artUrl = "http://plex/art"
          /\ s.grandparentThumb = None
          /\ norm_out.slides[1].fanart_url = transcodeImage("/show/art", 480, 800)
          /\ norm_out.slides[1].poster_url = transcodeImage(s.thumb, 300, 200)

\* C15: the play mode of a slide is "Transcoding" exactly when the session
\* has at least one transcode sub-session and "Direct Play" otherwise; the
\* viewer is the first entry of the session's user list when the list exists
\* and is not empty, and "Unknown User" otherwise.
C15_PlayModeAndViewer ==
    (norm_out.done /\ norm_in.kind = "playback") =>
        \A i \in 1..Len(norm_in.sessions) :
            LET s == norm_in.sessions[i]
                slide == norm_out.slides[i]
                named == "usernames" \in DOMAIN s /\ Len(s.usernames) > 0
            IN /\ slide.transcode \in {"Transcoding", "Direct Play"}
               /\ slide.transcode = "Transcoding" <=> Len(s.transcodeSessions) >= 1
               /\ named => slide.user = Head(s.usernames)
               /\ ~named => slide.user = "Unknown User"

\* A transcoded session of two viewers, and one that has no user list
C15_Witness ==
    /\ norm_out.done
    /\ norm_in.kind = "playback"
    /\ Len(norm_in.sessions) = 2
    /\ norm_in.sessions[1].transcodeSessions # <<>>
    /\ "usernames" \in DOMAIN norm_in.sessions[1]
    /\ Len(norm_in.sessions[1].usernames) = 2
    /\ norm_out.slides[1].transcode = "Transcoding"
    /\ norm_out.slides[1].user = "alice"
    /\ "usernames" \notin DOMAIN norm_in.sessions[2]
    /\ norm_in.sessions[2].transcodeSessions = <<>>
    /\ norm_out.slides[2].transcode = "Direct Play"
    /\ norm_out.slides[2].user = "Unknown User"

(***************************************************************************)
(* Properties of get_last_added: which items become slides.                *)
(***************************************************************************)
\* The items of kind movie, show or season among the first NUM_RECENT_ITEMS
FirstRecent(items) ==
    [i \in 1..(IF Len(items) > NUM_RECENT_ITEMS THEN NUM_RECENT_ITEMS ELSE Len(items))
        |-> items[i]]

IsLibraryKind(item) == item.type = "movie" \/ item.type = "show" \/ item.type = "season"

KeptOfFirstRecent(items) == SelectSeq(FirstRecent(items), IsLibraryKind)

\* C17: the library slides are exactly the items of kind movie, show or
\* season among the first NUM_RECENT_ITEMS recently added items, in source
\* order; items of any other kind give no slide, so there are at most
\* NUM_RECENT_ITEMS slides, and there can be fewer, down to none.
C17_SlidesAreLibraryKindsOfFirstRecent ==
    LibraryDone =>
        LET kept == KeptOfFirstRecent(norm_in.items)
            slides == norm_out.slides
        IN /\ Len(slides) = Len(kept)
           /\ Len(slides) <= NUM_RECENT_ITEMS
           /\ \A i \in 1..Len(kept) :
                 /\ slides[i].poster_url = kept[i].thumbUrl
                 /\ slides[i].type = (IF kept[i].type = "movie" THEN "movie" ELSE "show")

\* More items than NUM_RECENT_ITEMS, an episode among the first ones and a
\* movie after them: neither of the two gives a slide
C17_Witness ==
    /\ LibraryDone
    /\ Len(norm_in.items) = NUM_RECENT_ITEMS + 1
    /\ norm_in.items[1].type = "show"
    /\ norm_in.items[2].type = "episode"
    /\ norm_in.items[NUM_RECENT_ITEMS + 1].type = "movie"
    /\ \A i \in 3..NUM_RECENT_ITEMS : norm_in.items[i].type = "movie"
    /\ Len(norm_out.slides) = NUM_RECENT_ITEMS - 1
    /\ norm_out.slides[1].type = "show"

(***************************************************************************)
(* Properties of main_loop: events, dwells and the idle screen.            *)
(***************************************************************************)
\* A window-close event or a press of Escape
IsQuitOrEscape(event) ==
    \/ event.type = "QUIT"
    \/ event.type = "KEYDOWN" /\ event.key = "K_ESCAPE"

QuitInQueue == \E i \in 1..Len(events) : IsQuitOrEscape(events[i])

\* The event check of lines 375-380 has run: main_loop moves past it
EventsChecked == pc = "events" /\ pc' # "events"

\* C12: `running` is cleared only by the event check, and only when it reads
\* a window-close event or a press of Escape; a check that reads only other
\* events leaves `running` as it was; the loop ends (pygame.quit) only with
\* `running` cleared, never because some number of cycles has passed.
C12_StopsOnlyOnQuitOrEscape ==
    [][/\ (running /\ ~running') => (EventsChecked /\ QuitInQueue)
       /\ (EventsChecked /\ ~QuitInQueue) => (running' = running)
       /\ (pc' = "done") => (~running' /\ quitAt' # "none")]_vars

\* The loop has ended: a quit event was read, `running` is cleared and the
\* last cycle showed a slide and the idle screen
C12_Witness ==
    /\ pc = "done"
    /\ ~running
    /\ quitAt # "none"
    /\ Len(rendered) >= 2

Dwelling == pc = "sleep" \/ pc = "idle_sleep"

\* The cycle ran to its end: the loop is back at the poll or has ended
CycleComplete == pc = "done" \/ (pc = "poll" /\ polled.state = "ok")

\* C13: every screen rendered in a cycle is held for one time.sleep of
\* DISPLAY_TIME seconds before the next screen is rendered or the catalog is
\* polled again; a cycle of n slides that ran to its end has slept n + 1
\* times, (n + 1) * DISPLAY_TIME seconds in all, and DISPLAY_TIME is the same
\* in every cycle.
C13_OneDwellPerScreen ==
    /\ tally.dwells = Len(rendered) - (IF Dwelling THEN 1 ELSE 0)
    /\ tally.slept = tally.dwells * DISPLAY_TIME
    /\ CycleComplete =>
          /\ tally.dwells = Len(media_to_display) + 1
          /\ tally.slept = (Len(media_to_display) + 1) * DISPLAY_TIME

\* A cycle of two slides is over and the loop polls again: three sleeps
C13_Witness ==
    /\ pc = "poll"
    /\ polled.state = "ok"
    /\ Len(media_to_display) = 2
    /\ Len(rendered) = 3
    /\ tally.dwells = 3
    /\ tally.slept = 3 * DISPLAY_TIME

\* C16: an event check that reads a quit event clears `running` but does not
\* leave the for loop: the next slide, or the idle screen after the last
\* slide, comes next; with `running` cleared the loop never polls again, and
\* it ends only after the idle dwell, with every slide of the cycle and the
\* idle screen rendered.
C16_QuitSeenFinishesCycle ==
    [][/\ (EventsChecked /\ QuitInQueue) =>
             /\ ~running'
             /\ media_to_display' = media_to_display
             /\ IF idx < Len(media_to_display)
                THEN pc' = "render" /\ idx' = idx + 1
                ELSE pc' = "idle"
       /\ ~running => pc' # "poll"
       /\ (pc # "done" /\ pc' = "done") =>
             /\ pc = "idle_sleep"
             /\ RenderedAllThenIdle(media_to_display)]_vars

\* The quit event was read after the first slide's dwell, and the second
\* slide has been rendered all the same
C16_Witness ==
    /\ ~running
    /\ pc = "sleep"
    /\ idx = 2
    /\ Len(rendered) = 2
    /\ rendered[2].screen = "slide"

IdleShown == rendered # <<>> /\ rendered[Len(rendered)].screen = "idle"

\* C18: a cycle calls get_currently_playing twice: until its idle screen is
\* shown the call of the poll is the only one, and when the idle screen is
\* shown display_time_and_info has made the second one; the counter on the
\* idle screen is the length of what the second call returned, whatever the
\* poll returned.
C18_IdleCounterIsSecondQuery ==
    /\ IdleShown =>
          /\ tally.queries = 2
          /\ rendered[Len(rendered)].item.playing = tally.idle_sessions
    /\ (~IdleShown /\ polled.state = "ok") => tally.queries = 1

\* Nothing was playing at the poll, library slides were shown, and the idle
\* screen of the same cycle counts a session
C18_Witness ==
    /\ IdleShown
    /\ polled.state = "ok"
    /\ polled.now_playing = <<>>
    /\ Len(media_to_display) >= 1
    /\ media_to_display = polled.last_added
    /\ rendered[Len(rendered)].item.playing > 0
    /\ rendered[Len(rendered)].item.playing # Len(polled.now_playing)

(***************************************************************************)
(* Properties of display_info and display_time_and_info: the order of the  *)
(* operations on the display.                                               *)
(***************************************************************************)
\* The place of an operation in the order the screens are composed in
Stage(op) ==
    CASE op = "clear" -> 1
      [] op \in {"blit fanart", "fill", "blit time"} -> 2
      [] op \in {"blit overlay", "blit movies"} -> 3
      [] op \in {"blit poster", "blit tv_shows"} -> 4
      [] op \in {"blit title_shadow", "blit currently_playing"} -> 5
      [] op = "blit title" -> 6
      [] op = "blit description" -> 7
      [] op \in {"blit seasons", "blit episodes"} -> 8
      [] op \in {"blit user", "blit status"} -> 9
      [] op = "update" -> 10

Count(ops, wanted) == Cardinality({i \in 1..Len(ops) : ops[i] \in wanted})

\* What a slide screen that was drawn to its end consists of
SlideComposed(ops, in) ==
    /\ Count(ops, {"blit fanart", "fill"}) = 1
    /\ Count(ops, {"blit fanart"}) = 1 <=> in.fanart_response = "200 image"
    /\ Count(ops, {"blit overlay"}) = 1
    /\ Count(ops, {"blit poster"}) = (IF in.poster_response = "200 image" THEN 1 ELSE 0)
    /\ Count(ops, {"blit title"}) = 1
    /\ Count(ops, {"blit time", "blit movies", "blit tv_shows", "blit currently_playing"}) = 0

\* What an idle screen that was drawn to its end consists of
IdleComposed(ops) ==
    ops = <<"clear", "blit time", "blit movies", "blit tv_shows",
            "blit currently_playing", "update">>

\* C14: display_info and display_time_and_info clear the display before
\* they draw anything and present it once, as their last operation.
\* display_info draws, after the clear, the background (the scaled fanart,
\* or a fill when there is none), the overlay, the poster only if it was
\* fetched, the title, at most five description lines, the optional rows,
\* then presents; display_time_and_info draws the time and the three
\* counters between its clear and its present.  Nothing is drawn before the
\* clear or after the present.
C14_ClearDrawPresent ==
    draw_out.done =>
        LET ops == draw_out.ops
        IN /\ ops # <<>> => ops[1] = "clear"
           /\ Count(ops, {"clear"}) <= 1
           /\ Count(ops, {"update"}) <= 1
           /\ \A i, j \in 1..Len(ops) : i < j => Stage(ops[i]) <= Stage(ops[j])
           /\ Count(ops, {"blit description"}) <= 5
           /\ draw_out.returned =>
                 /\ ops[Len(ops)] = "update"
                 /\ IF draw_in.call = "display_info"
                    THEN SlideComposed(ops, draw_in)
                    ELSE IdleComposed(ops)

\* A show slide whose fanart is missing and whose description wraps to more
\* than five lines: a fill, the poster, five lines, the season rows, and the
\* present as the last operation
C14_Witness ==
    /\ draw_out.done
    /\ draw_out.returned
    /\ draw_in.call = "display_info"
    /\ draw_in.fanart_response = "404"
    /\ draw_in.poster_response = "200 image"
    /\ draw_in.description = Words(MaxDescriptionLines + 2)
    /\ draw_out.ops = <<"clear", "fill", "blit overlay", "blit poster",
                        "blit title_shadow", "blit title",
                        "blit description", "blit description", "blit description",
                        "blit description", "blit description",
                        "blit seasons", "blit episodes", "update">>

=============================================================================
